---- MODULE Spec2Model ----
(***************************************************************************)
(* worker-proxy: a Caller Endpoint (ServiceProxyClass, main thread) and a  *)
(* Callee Endpoint (WorkerServiceClass, Worker thread) exchanging method   *)
(* call / method result messages over one channel.                         *)
(***************************************************************************)
EXTENDS Integers, Sequences, FiniteSets, TLC

(***************************************************************************)
(* Bounds of the model.                                                    *)
(***************************************************************************)
\* number of messages the Worker's handler is fed in SpecCallee
MaxMsgs == 2
\* number of calls a Caller Endpoint issues, the getServiceMethods call of its
\* constructor included
MaxCalls == 3
\* the Identifier Allocator hands out the keys 1..MaxKey
MaxKey == 2
\* number of pending asynchronous invocations on the Callee Endpoint
MaxJobs == 2

(***************************************************************************)
(* JavaScript values.  Every value is a record of one shape, so that any   *)
(* two values can be compared: t is the kind, n a safe integer, s and m    *)
(* strings, l a list of values.                                            *)
(***************************************************************************)
JS(t, n, s, m, l) == [t |-> t, n |-> n, s |-> s, m |-> m, l |-> l]

Undefined == JS("undefined", 0, "", "", <<>>)
Null == JS("null", 0, "", "", <<>>)
\* a safe integer
Num(k) == JS("number", k, "", "", <<>>)
\* Number.MAX_VALUE: a number that is not a safe integer
MAX_VALUE == JS("number", 0, "MAX_VALUE", "", <<>>)
Str(x) == JS("string", 0, x, "", <<>>)
\* a plain object without a length property, e.g. { foo: 42 }
Obj(x) == JS("object", 0, x, "", <<>>)
Arr(items) == JS("array", 0, "", "", items)
\* a function: the object that owns it ("this", "service", "worker", "methods",
\* "user" for the onterminate callback) and its name
Fun(owner, x) == JS("function", 0, x, owner, <<>>)
\* an Error instance: name, message, stack
Err(name, message, stack) == JS("error", 0, name, message, <<Str(stack)>>)
\* the plain object { name, message, stack } that reject() posts
Descriptor(name, message, stack) == JS("descriptor", 0, name, message, stack)

isObject(val) == val.t \in {"object", "array", "error", "descriptor"}
isNumber(val) == val.t = "number"
isArrayLike(val) == isObject(val) /\ val.t = "array"
isFunction(val) == val.t = "function"
isString(val) == val.t = "string"
isSafeInteger(val) == val.t = "number" /\ val.s = ""
\* !val
Falsy(val) == val.t \in {"undefined", "null"} \/ val = Num(0) \/ val = Str("")
\* err.name, err.message, err.stack; "" and <<>> stand for a property that is
\* not there (undefined)
NameOf(err) == IF err.t \in {"error", "descriptor"} THEN err.s ELSE ""
MessageOf(err) == IF err.t \in {"error", "descriptor"} THEN err.m ELSE ""
StackOf(err) == IF err.t \in {"error", "descriptor"} THEN err.l ELSE <<>>
\* reading a property of null or undefined throws
NoProperties(val) == val.t \in {"undefined", "null"}

\* new TypeError('invalid argument'), new Error('unknown method')
InvalidArgument == Err("TypeError", "invalid argument", "at assert")
UnknownMethodError == Err("Error", "unknown method", "at unknown")
\* a TypeError the engine throws: a property of undefined or null is read,
\* or something that is not a function is called
EngineTypeError == Err("TypeError", "engine", "at engine")

(***************************************************************************)
(* Messages: the data of a message event.  nul: the data is null.  A field *)
(* the message does not have reads Undefined.                              *)
(* of is a history field that no code reads: the call (its rank among the   *)
(* calls of the Caller Endpoint) whose request the message is or answers,  *)
(* 0 for a message that stems from no call.                                *)
(***************************************************************************)
Msg(uuid, target, method, args) ==
  [nul |-> FALSE, uuid |-> uuid, target |-> target, method |-> method, args |-> args,
   of |-> 0]
NullData ==
  [nul |-> TRUE, uuid |-> Undefined, target |-> Undefined, method |-> Undefined,
   args |-> Undefined, of |-> 0]
\* posts, each marked as stemming from call c
Tag(posts, c) == [i \in DOMAIN posts |-> [posts[i] EXCEPT !.of = c]]
\* a value posted as the whole message: its uuid, method and args fields
AsMessage(val) ==
  IF NoProperties(val) THEN NullData ELSE Msg(Undefined, Undefined, Undefined, Undefined)

\* args[i], counting from 1
Arg(args, i) == IF isArrayLike(args) /\ Len(args.l) >= i THEN args.l[i] ELSE Undefined
\* spec.args || []
ArgsOrEmpty(args) == IF Falsy(args) THEN Arr(<<>>) ELSE args

RECURSIVE IndexOf(_, _)
\* Array.prototype.indexOf >= 0
IndexOf(list, val) ==
  IF list = <<>> THEN FALSE
  ELSE IF Head(list) = val THEN TRUE ELSE IndexOf(Tail(list), val)

(***************************************************************************)
(* Callee Endpoint: setup.                                                 *)
(***************************************************************************)
\* The service object handed to hookService, as its prototype chain up to
\* (excluding) Object.prototype: the properties of each object of the chain,
\* own properties first.  fn: the property is a function.
ServiceChain ==
  << << [name |-> "version", fn |-> FALSE] >>,
     << [name |-> "constructor", fn |-> TRUE],
        [name |-> "asyncwork", fn |-> TRUE],
        [name |-> "syncwork", fn |-> TRUE] >> >>

RECURSIVE AddKeys(_, _)
\* .filter(key => key !== 'constructor').reduce((keys, key) => (keys[key] = true) && keys, ...)
AddKeys(keys, props) ==
  IF props = <<>> THEN keys
  ELSE LET key == Str(Head(props).name)
       IN AddKeys(IF key = Str("constructor") \/ IndexOf(keys, key)
                  THEN keys ELSE Append(keys, key), Tail(props))

RECURSIVE getPropertyNames(_, _)
\* the names collected in keys so far, then those of chain
getPropertyNames(keys, chain) ==
  IF chain = <<>> THEN keys
  ELSE getPropertyNames(AddKeys(keys, Head(chain)), Tail(chain))

RECURSIVE Lookup(_, _)
Lookup(props, name) ==
  IF props = <<>> THEN Undefined
  ELSE IF Head(props).name = name
       THEN (IF Head(props).fn THEN Fun("service", name) ELSE Str(name))
       ELSE Lookup(Tail(props), name)

RECURSIVE ChainMember(_, _)
ChainMember(chain, name) ==
  IF chain = <<>> THEN Undefined
  ELSE LET own == Lookup(Head(chain), name)
       IN IF own # Undefined THEN own ELSE ChainMember(Tail(chain), name)

\* service[key]
MemberOf(chain, key) == IF isString(key) THEN ChainMember(chain, key.s) ELSE Undefined
\* service[key] of the service of the tests
ServiceMember(key) == MemberOf(ServiceChain, key)

RECURSIVE Filter(_, _)
\* the members of list that are in keep, in list's order
Filter(list, keep) ==
  IF list = <<>> THEN <<>>
  ELSE (IF Head(list) \in keep THEN <<Head(list)>> ELSE <<>>) \o Filter(Tail(list), keep)

Range(list) == {list[i] : i \in DOMAIN list}

\* A valid ServiceBinderSpec: methods is the allow-list (Undefined: none),
\* onterminate says whether a termination callback is given, service is the
\* prototype chain of the service object.
Setups ==
  [methods : {Undefined, Arr(<<Str("syncwork"), Str("shazam")>>)}, onterminate : BOOLEAN,
   service : {ServiceChain}]

\* config.methods of hookService for a service with this prototype chain and
\* the allow-list allow (spec.methods)
configMethods(chain, allow) ==
  LET names == getPropertyNames(<<>>, chain)
      callable == Filter(names, {n \in Range(names) : isFunction(ChainMember(chain, n.s))})
  IN Filter(callable, {n \in Range(callable) : Falsy(allow) \/ IndexOf(allow.l, n)})

\* config.methods of hookService
hookService(spec) == configMethods(spec.service, spec.methods)

(***************************************************************************)
(* Callee Endpoint: dispatch of one message.                               *)
(***************************************************************************)
\* What the code called by the endpoint (a service method, the termination
\* callback) does when invoked: returns a value, throws, or returns a promise
\* that is still pending.
Values == {Str("foo")}
Throwables == {Err("Error", "boom", "at syncwork"), Undefined}
Behaviours ==
  [kind : {"return"}, val : Values] \cup [kind : {"throw"}, val : Throwables]
    \cup [kind : {"pending"}, val : {Undefined}]
\* the behaviours to tell apart for a message: one when it invokes no user code
BehavioursOf(out) == IF out.invoked = <<>> THEN {CHOOSE b \in Behaviours : TRUE} ELSE Behaviours
\* how a pending promise settles
Settlements == [kind : {"return"}, val : Values] \cup [kind : {"throw"}, val : Throwables]

\* this[key] of the WorkerServiceClass instance; ms is this.methods, config
\* the ServiceBinderSpec it holds (this.service, this.onterminate)
ThisMember(key, ms, config) ==
  IF ~isString(key) THEN Undefined
  ELSE IF key.s = "service" THEN Obj("service")
  ELSE IF key.s = "worker" THEN Obj("worker")
  ELSE IF key.s = "methods" THEN Arr(ms)
  ELSE IF key.s = "onterminate" THEN (IF config.onterminate THEN Fun("user", "onterminate") ELSE Undefined)
  ELSE IF key.s \in {"onmessage", "callTargetMethod", "getServiceMethods",
                     "resolve", "reject", "unknown"} THEN Fun("this", key.s)
  ELSE Undefined

\* a variant in which the service is the target when this[spec.target] is no object
TargetOf_ServiceDefault(spec, ms, config) ==
  LET val == ThisMember(spec.target, ms, config)
  IN IF ~isObject(val) THEN "service" ELSE IF val.t = "array" THEN "methods" ELSE val.s

\* isObject(this[spec.target]) ? this[spec.target] : this
TargetOf(spec, ms, config) ==
  LET val == ThisMember(spec.target, ms, config)
  IN IF ~isObject(val) THEN "this" ELSE IF val.t = "array" THEN "methods" ELSE val.s

\* target[key]
TargetMember(target, key, ms, config) ==
  CASE target = "this" -> ThisMember(key, ms, config)
    [] target = "service" -> MemberOf(config.service, key)
    [] target = "worker" -> IF key = Str("postMessage") THEN Fun("worker", "postMessage")
                            ELSE Undefined
    [] target = "methods" -> IF key \in {Str("push"), Str("pop")} THEN Fun("methods", key.s)
                             ELSE Undefined

\* The outcome of a call: kind "return" (val returned), "throw" (val thrown,
\* or a promise already rejected with val returned) or "pending" (a pending
\* promise returned); posts: the messages posted during the call; methods:
\* this.methods after it; invoked: the user code invoked, with its arguments;
\* applied: the function that method.apply ran, Undefined when none was.
Outcome(kind, val, posts, ms, invoked) ==
  [kind |-> kind, val |-> val, posts |-> posts, methods |-> ms, invoked |-> invoked,
   applied |-> Undefined]
Returns(val, ms) == Outcome("return", val, <<>>, ms, <<>>)
Throws(val, ms) == Outcome("throw", val, <<>>, ms, <<>>)

\* resolve (uuid, res)
resolve(uuid, res) == << Msg(uuid, Undefined, Str("resolve"), Arr(<<res>>)) >>
\* reject (uuid, err), for an err whose properties can be read
reject(uuid, err) ==
  << Msg(uuid, Undefined, Str("reject"),
         Arr(<< Descriptor(NameOf(err), MessageOf(err), StackOf(err)) >>)) >>

\* method.apply(target, args)
Apply(method, args, ms, beh) ==
  IF ~isFunction(method) THEN Throws(EngineTypeError, ms)
  ELSE IF method.m \in {"service", "user"}
    THEN Outcome(beh.kind, beh.val, <<>>, ms, << [fn |-> method, args |-> args] >>)
  ELSE IF method.m = "worker"
    THEN Outcome("return", Undefined, << AsMessage(Arg(args, 1)) >>, ms, <<>>)
  ELSE IF method.m = "methods"
    THEN (IF method.s = "push"
          THEN Returns(Num(Len(ms) + Len(args.l)), ms \o args.l)
          ELSE IF ms = <<>> THEN Returns(Undefined, ms)
          ELSE Returns(ms[Len(ms)], SubSeq(ms, 1, Len(ms) - 1)))
  ELSE CASE method.s = "unknown" -> Throws(UnknownMethodError, ms)
         [] method.s = "getServiceMethods" -> Returns(Arr(ms), ms)
         [] method.s = "resolve" ->
              Outcome("return", Undefined, resolve(Arg(args, 1), Arg(args, 2)), ms, <<>>)
         [] method.s = "reject" ->
              IF NoProperties(Arg(args, 2)) THEN Throws(EngineTypeError, ms)
              ELSE Outcome("return", Undefined, reject(Arg(args, 1), Arg(args, 2)), ms, <<>>)
         \* onmessage(event) with an event that has no data object: reading
         \* event.data.uuid throws
         [] method.s = "onmessage" -> Throws(EngineTypeError, ms)
         \* callTargetMethod(spec) with a spec that has no uuid
         [] method.s = "callTargetMethod" ->
              IF NoProperties(Arg(args, 1)) THEN Throws(EngineTypeError, ms)
              ELSE Throws(InvalidArgument, ms)

\* a variant of isValidWorkerServiceMethodCall that lets any args through
isValidWorkerServiceMethodCall_AnyArgs(val) ==
  /\ ~val.nul
  /\ (Falsy(val.target) \/ isString(val.target))
  /\ isString(val.method)

isValidWorkerServiceMethodCall(val) ==
  /\ ~val.nul
  /\ (Falsy(val.target) \/ isString(val.target))
  /\ isString(val.method)
  /\ (Falsy(val.args) \/ isArrayLike(val.args))

callTargetMethod(spec, ms, config, beh) ==
  IF spec.nul THEN Throws(EngineTypeError, ms)
  ELSE IF ~isSafeInteger(spec.uuid) THEN Throws(InvalidArgument, ms)
  ELSE IF ~isValidWorkerServiceMethodCall(spec) THEN Throws(InvalidArgument, ms)
  ELSE LET target == TargetOf(spec, ms, config)
           member == TargetMember(target, spec.method, ms, config)
           isValidMethod == IF target # "service" THEN isFunction(member)
                            ELSE IndexOf(ms, spec.method)
           method == IF isValidMethod THEN member ELSE Fun("this", "unknown")
       IN [Apply(method, ArgsOrEmpty(spec.args), ms, beh) EXCEPT !.applied = method]

\* .then(this.resolve.bind(this, uuid)).catch(this.reject.bind(this, uuid)) once
\* the promise has settled: the messages posted.  reject() reads err.name:
\* with err undefined or null it throws and nothing is posted.
Completion(uuid, kind, val) ==
  IF kind = "return" THEN resolve(uuid, val)
  ELSE IF NoProperties(val) THEN <<>> ELSE reject(uuid, val)

(***************************************************************************)
(* State.                                                                  *)
(***************************************************************************)
VARIABLES
  \* Callee Endpoint (WorkerServiceClass instance)
  setup,        \* the ServiceBinderSpec it was hooked with
  methods,      \* this.methods
  jobs,         \* the invocations whose promise is pending
  \* the channel
  toWorker,     \* messages posted by the main thread, not yet handled
  toMain,       \* messages posted by the Worker, not yet handled
  alive,        \* the Worker has not been terminated (worker.terminate())
  \* Caller Endpoint (ServiceProxyClass instance)
  calls,        \* this.calls: the Identifier Allocator, key -> call
  promises,     \* the promise returned by each call(), in the order of the calls
  service,      \* this.service
  \* history: what the tests observe with their spies
  timeout,      \* ServiceProxyClass.timeout, a static property
  deadline,     \* history: the Caller Endpoints made and the last deadline applied
  hook,         \* worker.onmessage and the last call of hookService
  turn,         \* the last turn of the Worker's message handler
  seen,         \* the last turn of the main thread
  served,       \* the outcome of the dispatch of each call's request
  sent          \* number of messages fed by the harness of SpecCallee and SpecCaller

timeoutVars == <<timeout, deadline>>
calleeVars == <<setup, methods, jobs, hook, turn, served>>
callerVars == <<calls, promises, service, seen>>
vars == <<timeout, deadline, setup, methods, jobs, hook, toWorker, toMain, alive, calls, promises, service,
          turn, seen, served, sent>>

Keys == 1..MaxKey

\* The service member of a ServiceBinderSpec: an object with this prototype
\* chain, or a value that is no object.  rooted: the chain ends at the root
\* Object prototype; it ends at null otherwise (Object.create(null)).
ServiceObject(chain) == [val |-> Obj("service"), chain |-> chain, rooted |-> TRUE]
NullProtoObject(chain) == [val |-> Obj("service"), chain |-> chain, rooted |-> FALSE]
NoServiceObject(val) == [val |-> val, chain |-> <<>>, rooted |-> FALSE]
\* A ServiceBinderSpec as handed to hookService
BinderSpec(w, srv, o, m) ==
  [isobj |-> TRUE, worker |-> w, service |-> srv, onterminate |-> o, methods |-> m]
\* an argument of hookService that is no object, e.g. 42
NoBinderSpec ==
  [isobj |-> FALSE, worker |-> Undefined, service |-> NoServiceObject(Undefined),
   onterminate |-> Undefined,
   methods |-> Undefined]
\* worker.onmessage and the last call of hookService.  handler: the number of
\* handlers installed so far, 0 when none is; before: handler before the last
\* call; n: number of calls; input, error: the argument of the last call and
\* what it threw
Hooked(handler, before, n, input, error) ==
  [handler |-> handler, before |-> before, n |-> n, input |-> input, error |-> error]

NoOutcome == [kind |-> "none", val |-> Undefined]
NoTurn ==
  [kind |-> "none", data |-> NullData, uuid |-> Undefined, posts |-> <<>>,
   invoked |-> <<>>, applied |-> Undefined, job |-> Undefined, escaped |-> FALSE,
   outcome |-> NoOutcome]
\* spec: the spec handed to call (spec), as the caller wrote it
NothingSeen ==
  [kind |-> "none", data |-> NullData, call |-> 0, popped |-> 0, settled |-> 0,
   threw |-> FALSE, killed |-> FALSE,
   spec |-> [target |-> Undefined, method |-> Undefined, args |-> Undefined]]

InitCallee ==
  /\ setup \in Setups
  /\ methods = hookService(setup)
  /\ hook = Hooked(1, 0, 1,
                   BinderSpec(Obj("worker"), ServiceObject(setup.service),
                              IF setup.onterminate THEN Fun("user", "onterminate")
                              ELSE Undefined, setup.methods),
                   Undefined)
  /\ jobs = <<>>
  /\ turn = NoTurn
  /\ served = [c \in 1..MaxCalls |-> NoOutcome]

(***************************************************************************)
(* Callee Endpoint: the message handler.                                   *)
(***************************************************************************)
\* a variant that handles the message that arrived last
WorkerOnMessage_LastFirst(beh) ==
  /\ alive
  /\ toWorker # <<>>
  /\ LET data == toWorker[Len(toWorker)]
         out == callTargetMethod(data, methods, setup, beh)
         done == IF data.nul \/ out.kind = "pending" THEN <<>>
                 ELSE Completion(data.uuid, out.kind, out.val)
         posts == Tag(out.posts \o done, data.of)
     IN /\ beh \in BehavioursOf(out)
        /\ out.kind = "pending" => Len(jobs) < MaxJobs
        /\ toWorker' = SubSeq(toWorker, 1, Len(toWorker) - 1)
        /\ methods' = out.methods
        /\ toMain' = toMain \o posts
        /\ jobs' = IF out.kind = "pending" /\ ~data.nul
                   THEN Append(jobs, [uuid |-> data.uuid, of |-> data.of,
                                      fn |-> out.applied])
                   ELSE jobs
        /\ served' = IF data.of \in DOMAIN served
                     THEN [served EXCEPT ![data.of] = [kind |-> out.kind, val |-> out.val]]
                     ELSE served
        /\ turn' = [kind |-> "message", data |-> data, uuid |-> data.uuid,
                    posts |-> posts, invoked |-> out.invoked, applied |-> out.applied,
                    job |-> Undefined,
                    escaped |-> data.nul \/ (out.kind = "throw" /\ done = <<>>),
                    outcome |-> [kind |-> out.kind, val |-> out.val]]
  /\ UNCHANGED <<setup, hook, sent, alive, callerVars, timeoutVars>>

\* onmessage (event), with the microtasks it queues, for the first message of
\* toWorker.  event.data.uuid is read after Promise.try has run the dispatch:
\* with null data that read throws out of the handler.
WorkerOnMessage(beh) ==
  /\ alive
  /\ toWorker # <<>>
  /\ LET data == Head(toWorker)
         out == callTargetMethod(data, methods, setup, beh)
         done == IF data.nul \/ out.kind = "pending" THEN <<>>
                 ELSE Completion(data.uuid, out.kind, out.val)
         posts == Tag(out.posts \o done, data.of)
     IN /\ beh \in BehavioursOf(out)
        /\ out.kind = "pending" => Len(jobs) < MaxJobs
        /\ toWorker' = Tail(toWorker)
        /\ methods' = out.methods
        /\ toMain' = toMain \o posts
        /\ jobs' = IF out.kind = "pending" /\ ~data.nul
                   THEN Append(jobs, [uuid |-> data.uuid, of |-> data.of,
                                      fn |-> out.applied])
                   ELSE jobs
        /\ served' = IF data.of \in DOMAIN served
                     THEN [served EXCEPT ![data.of] = [kind |-> out.kind, val |-> out.val]]
                     ELSE served
        /\ turn' = [kind |-> "message", data |-> data, uuid |-> data.uuid,
                    posts |-> posts, invoked |-> out.invoked, applied |-> out.applied,
                    job |-> Undefined,
                    escaped |-> data.nul \/ (out.kind = "throw" /\ done = <<>>),
                    outcome |-> [kind |-> out.kind, val |-> out.val]]
  /\ UNCHANGED <<setup, hook, sent, alive, callerVars, timeoutVars>>

\* the pending promise of jobs[i] settles as s: the .then / .catch of onmessage run
Settle(i, s) ==
  /\ alive
  /\ i \in DOMAIN jobs
  /\ LET done == Tag(Completion(jobs[i].uuid, s.kind, s.val), jobs[i].of)
     IN /\ toMain' = toMain \o done
        /\ turn' = [kind |-> "settle", data |-> NullData, uuid |-> jobs[i].uuid,
                    posts |-> done, invoked |-> <<>>, applied |-> Undefined,
                    job |-> jobs[i].fn,
                    escaped |-> done = <<>>,
                    outcome |-> [kind |-> s.kind, val |-> s.val]]
        /\ served' = IF jobs[i].of \in DOMAIN served
                     THEN [served EXCEPT ![jobs[i].of] = [kind |-> s.kind, val |-> s.val]]
                     ELSE served
  /\ jobs' = SubSeq(jobs, 1, i - 1) \o SubSeq(jobs, i + 1, Len(jobs))
  /\ UNCHANGED <<setup, methods, hook, toWorker, sent, alive, callerVars, timeoutVars>>

(***************************************************************************)
(* Identifier Allocator (lib/indexed-queue, not among the sources): any    *)
(* key not in use may be handed out; pop of an absent key is out of        *)
(* contract.                                                               *)
(***************************************************************************)
has(uuid) == isSafeInteger(uuid) /\ uuid.n \in DOMAIN calls
\* the queue after push(c) has returned key k
push(k, c) == [x \in DOMAIN calls \cup {k} |-> IF x = k THEN c ELSE calls[x]]
\* the queue after pop(k)
pop(k) == [x \in DOMAIN calls \ {k} |-> calls[x]]
\* what pop throws when it rejects an absent key
AbsentKeyError == Err("ReferenceError", "absent key", "at pop")

(***************************************************************************)
(* Caller Endpoint.                                                        *)
(***************************************************************************)
\* Promise.TimeoutError of .timeout()
TimeoutError == JS("timeout", 0, "TimeoutError", "operation timed out", <<>>)

\* static timeout = 3 * 60 * 1000 // ms
DefaultTimeout == 180000

\* the Caller Endpoints made so far, each with the opts.timeout it was made
\* with (Undefined: none), and the last call placed: its endpoint, its
\* data.timeout and the deadline handed to .timeout()
Deadline(endpoints, endpoint, percall, applied) ==
  [endpoints |-> endpoints, endpoint |-> endpoint, percall |-> percall, applied |-> applied]

\* .timeout(data.timeout || ServiceProxyClass.timeout)
TimeoutOf(percall) == IF Falsy(percall) THEN timeout ELSE percall

\* the state after the first newInstance (path), without opts
InitTimeout ==
  /\ timeout = Num(DefaultTimeout)
  /\ deadline = Deadline(<<Undefined>>, 1, Undefined, Num(DefaultTimeout))

\* a variant of call that posts the spec without its args
call_NoArgs(target, method, args, k) ==
  /\ Len(promises) < MaxCalls
  /\ k \in Keys \ DOMAIN calls
  /\ LET c == Len(promises) + 1
     IN /\ calls' = push(k, c)
        /\ promises' = Append(promises, [uuid |-> k, target |-> target, method |-> method,
                                         state |-> "pending", val |-> Undefined,
                                         timer |-> TRUE, heard |-> FALSE,
                                         dropped |-> FALSE])
        /\ toWorker' = Append(toWorker, [Msg(Num(k), target, method, Undefined) EXCEPT !.of = c])
        /\ seen' = [NothingSeen EXCEPT !.kind = "call", !.call = c,
                      !.spec = [target |-> target, method |-> method, args |-> args]]

\* call (spec), k the key that push returns
call(target, method, args, k) ==
  /\ Len(promises) < MaxCalls
  /\ k \in Keys \ DOMAIN calls
  /\ LET c == Len(promises) + 1
     IN /\ calls' = push(k, c)
        /\ promises' = Append(promises, [uuid |-> k, target |-> target, method |-> method,
                                         state |-> "pending", val |-> Undefined,
                                         timer |-> TRUE, heard |-> FALSE,
                                         dropped |-> FALSE])
        /\ toWorker' = Append(toWorker, [Msg(Num(k), target, method, args) EXCEPT !.of = c])
        /\ seen' = [NothingSeen EXCEPT !.kind = "call", !.call = c,
                      !.spec = [target |-> target, method |-> method, args |-> args]]

\* the state after the constructor: this.call({ method: 'getServiceMethods' })
InitCaller ==
  /\ \E k \in Keys :
       /\ calls = (k :> 1)
       /\ toWorker = << [Msg(Num(k), Undefined, Str("getServiceMethods"), Undefined)
                           EXCEPT !.of = 1] >>
       /\ promises = << [uuid |-> k, target |-> Undefined,
                         method |-> Str("getServiceMethods"),
                         state |-> "pending", val |-> Undefined, timer |-> TRUE,
                         heard |-> FALSE, dropped |-> FALSE] >>
  /\ service = [state |-> "pending", members |-> <<>>, val |-> Undefined]
  /\ seen = NothingSeen
  /\ toMain = <<>>
  /\ alive = TRUE
  /\ sent = 0

\* .then(methods => this.proxy(methods)) of the constructor: methods.reduce
\* throws when methods is no array
proxy(val) ==
  IF val.t = "array" THEN [state |-> "fulfilled", members |-> val.l, val |-> Undefined]
  ELSE [state |-> "rejected", members |-> <<>>, val |-> EngineTypeError]

\* the promises ps after the promise of call c is settled, if it still is pending
Settled(ps, c, state, val) ==
  [ps EXCEPT ![c] = IF @.state = "pending"
                          THEN [@ EXCEPT !.state = state, !.val = val, !.timer = FALSE]
                          ELSE @]

\* a variant in which the settlement of any call settles this.service
ServiceAfter_AnyCall(c, state, val) ==
  IF service.state # "pending" THEN service
  ELSE IF state = "fulfilled" THEN proxy(val)
  ELSE [state |-> "rejected", members |-> <<>>, val |-> val]

\* this.service once the promise of the constructor's call, call 1, is settled
ServiceAfter(c, state, val) ==
  IF c # 1 \/ service.state # "pending" THEN service
  ELSE IF state = "fulfilled" THEN proxy(val)
  ELSE [state |-> "rejected", members |-> <<>>, val |-> val]

\* call[event.data.method] of the record { resolve, reject }
ResolverMember(key) ==
  IF key \in {Str("resolve"), Str("reject")} THEN Fun("call", key.s) ELSE Undefined

\* history: ps, where every call still pending is marked as having had a
\* message that carries its uuid arrive (heard)
Heard(ps, uuid) ==
  [c \in DOMAIN ps |-> IF ps[c].state = "pending" /\ Num(ps[c].uuid) = uuid
                       THEN [ps[c] EXCEPT !.heard = TRUE] ELSE ps[c]]

\* the call was placed by terminate(): this.call({ method: 'onterminate' })
IsTerminate(c) ==
  promises[c].target = Undefined /\ promises[c].method = Str("onterminate")

\* history: ps, where call c is marked as having had its record removed by a
\* response that did not settle it (dropped)
Dropped(ps, c) == [ps EXCEPT ![c] = [@ EXCEPT !.dropped = TRUE]]

\* a variant of onmessage in which a message without record clears the queue
OnMessage_Unmatched(data) ==
  IF data.nul
  THEN /\ seen' = [NothingSeen EXCEPT !.kind = "message", !.data = data, !.threw = TRUE]
       /\ UNCHANGED <<calls, promises, service, alive>>
  ELSE IF ~has(data.uuid)
  THEN /\ seen' = [NothingSeen EXCEPT !.kind = "message", !.data = data]
       /\ promises' = Heard(promises, data.uuid)
       /\ calls' = <<>>
       /\ UNCHANGED <<service, alive>>
  ELSE LET c == calls[data.uuid.n]
           member == ResolverMember(data.method)
           args == IF isArrayLike(data.args) THEN data.args ELSE Arr(<<>>)
           state == IF member.s = "resolve" THEN "fulfilled" ELSE "rejected"
       IN /\ calls' = pop(data.uuid.n)
          /\ IF ~isFunction(member)
             THEN /\ seen' = [NothingSeen EXCEPT !.kind = "message", !.data = data,
                                                 !.popped = c]
                  /\ promises' = Dropped(Heard(promises, data.uuid), c)
                  /\ UNCHANGED <<service, alive>>
             ELSE LET kills == IsTerminate(c) /\ promises[c].state = "pending"
                                   /\ state = "fulfilled"
                  IN /\ promises' = Settled(Heard(promises, data.uuid), c, state, Arg(args, 1))
                     /\ service' = ServiceAfter(c, state, Arg(args, 1))
                     /\ alive' = (alive /\ ~kills)
                     /\ seen' = [NothingSeen EXCEPT !.kind = "message", !.data = data,
                                   !.popped = c, !.killed = kills,
                                   !.settled = IF promises[c].state = "pending" THEN c ELSE 0]

\* onmessage (event) of the Caller Endpoint; .then(() => this.kill()) of
\* terminate() runs when its call fulfills
OnMessage(data) ==
  IF data.nul
  THEN /\ seen' = [NothingSeen EXCEPT !.kind = "message", !.data = data, !.threw = TRUE]
       /\ UNCHANGED <<calls, promises, service, alive>>
  ELSE IF ~has(data.uuid)
  THEN /\ seen' = [NothingSeen EXCEPT !.kind = "message", !.data = data]
       /\ promises' = Heard(promises, data.uuid)
       /\ UNCHANGED <<calls, service, alive>>
  ELSE LET c == calls[data.uuid.n]
           member == ResolverMember(data.method)
           args == IF isArrayLike(data.args) THEN data.args ELSE Arr(<<>>)
           state == IF member.s = "resolve" THEN "fulfilled" ELSE "rejected"
       IN /\ calls' = pop(data.uuid.n)
          /\ IF ~isFunction(member)
             THEN /\ seen' = [NothingSeen EXCEPT !.kind = "message", !.data = data,
                                                 !.popped = c]
                  /\ promises' = Dropped(Heard(promises, data.uuid), c)
                  /\ UNCHANGED <<service, alive>>
             ELSE LET kills == IsTerminate(c) /\ promises[c].state = "pending"
                                   /\ state = "fulfilled"
                  IN /\ promises' = Settled(Heard(promises, data.uuid), c, state, Arg(args, 1))
                     /\ service' = ServiceAfter(c, state, Arg(args, 1))
                     /\ alive' = (alive /\ ~kills)
                     /\ seen' = [NothingSeen EXCEPT !.kind = "message", !.data = data,
                                   !.popped = c, !.killed = kills,
                                   !.settled = IF promises[c].state = "pending" THEN c ELSE 0]

\* the message event of the first message of toMain; when it fulfills the
\* call of terminate(), kill() follows and the host empties the queues
MainOnMessage ==
  /\ toMain # <<>>
  /\ OnMessage(Head(toMain))
  /\ toMain' = IF seen'.killed THEN <<>> ELSE Tail(toMain)
  /\ toWorker' = IF seen'.killed THEN <<>> ELSE toWorker
  /\ jobs' = IF seen'.killed THEN <<>> ELSE jobs
  /\ UNCHANGED <<setup, methods, hook, turn, served, sent, timeoutVars>>

\* a member of the stand-in is invoked
StandIn(method, args, k) ==
  /\ service.state = "fulfilled"
  /\ method \in Range(service.members)
  /\ call(Str("service"), method, args, k)
  /\ UNCHANGED <<calleeVars, toMain, service, alive, sent, timeoutVars>>

\* terminate (): this.call({ method: 'onterminate' }).then(() => this.kill())
Terminate(k) ==
  /\ call(Undefined, Str("onterminate"), Undefined, k)
  /\ UNCHANGED <<calleeVars, toMain, service, alive, sent, timeoutVars>>

\* a variant of kill() that does nothing once the Worker is destroyed
Kill_WhenAlive ==
  /\ alive
  /\ alive' = FALSE
  /\ toMain' = <<>>
  /\ toWorker' = <<>>
  /\ jobs' = <<>>
  /\ seen' = [NothingSeen EXCEPT !.kind = "kill", !.killed = TRUE]
  /\ UNCHANGED <<setup, methods, hook, turn, served, calls, promises, service, sent, timeoutVars>>

\* a variant in which the messages the Worker has posted stay queued
Kill_QueueKept ==
  /\ alive' = FALSE
  /\ toWorker' = <<>>
  /\ jobs' = <<>>
  /\ seen' = [NothingSeen EXCEPT !.kind = "kill", !.killed = TRUE]
  /\ UNCHANGED <<setup, methods, hook, turn, served, calls, promises, service, sent, toMain,
                 timeoutVars>>

\* kill (): this.worker.terminate().  The host discards the Worker's tasks
\* and empties the message queues of its port in both directions.
Kill ==
  /\ alive' = FALSE
  /\ toMain' = <<>>
  /\ toWorker' = <<>>
  /\ jobs' = <<>>
  /\ seen' = [NothingSeen EXCEPT !.kind = "kill", !.killed = TRUE]
  /\ UNCHANGED <<setup, methods, hook, turn, served, calls, promises, service, sent, timeoutVars>>

\* a variant in which the timer of a settled call still fires
Timeout_NotCancelled(c, throws) ==
  /\ c \in DOMAIN promises
  /\ LET k == promises[c].uuid
         absent == k \notin DOMAIN calls
         err == IF absent /\ throws THEN AbsentKeyError ELSE TimeoutError
     IN /\ absent \/ ~throws
        /\ calls' = IF absent THEN calls ELSE pop(k)
        /\ promises' = Settled(promises, c, "rejected", err)
        /\ service' = ServiceAfter(c, "rejected", err)
        /\ seen' = [NothingSeen EXCEPT !.kind = "timeout", !.call = c,
                      !.popped = IF absent THEN 0 ELSE calls[k], !.threw = absent /\ throws]
  /\ UNCHANGED <<calleeVars, toWorker, toMain, alive, sent, timeoutVars>>

\* the deadline of call c elapses: .catch(Promise.TimeoutError, ...) runs.
\* throws: whether pop throws when the key is absent
Timeout(c, throws) ==
  /\ c \in DOMAIN promises
  /\ promises[c].state = "pending"
  /\ promises[c].timer
  /\ LET k == promises[c].uuid
         absent == k \notin DOMAIN calls
         err == IF absent /\ throws THEN AbsentKeyError ELSE TimeoutError
     IN /\ absent \/ ~throws
        /\ calls' = IF absent THEN calls ELSE pop(k)
        /\ promises' = Settled(promises, c, "rejected", err)
        /\ service' = ServiceAfter(c, "rejected", err)
        /\ seen' = [NothingSeen EXCEPT !.kind = "timeout", !.call = c,
                      !.popped = IF absent THEN 0 ELSE calls[k], !.threw = absent /\ throws]
  /\ UNCHANGED <<calleeVars, toWorker, toMain, alive, sent, timeoutVars>>

\* the arguments the consumer calls the stand-in with
CallArgs == {Arr(<<Str("foo"), Str("bar")>>), Arr(<<>>)}

(***************************************************************************)
(* The two endpoints and the channel between them.                         *)
(***************************************************************************)
Init == InitCallee /\ InitCaller /\ InitTimeout

Next ==
  \/ \E method \in Range(service.members), args \in CallArgs, k \in Keys :
       StandIn(method, args, k)
  \/ \E beh \in Behaviours : WorkerOnMessage(beh)
  \/ \E i \in 1..MaxJobs, s \in Settlements : Settle(i, s)
  \/ MainOnMessage
  \/ \E c \in 1..MaxCalls, throws \in BOOLEAN : Timeout(c, throws)
  \/ \E k \in Keys : Terminate(k)
  \/ Kill

Spec == Init /\ [][Next]_vars

(***************************************************************************)
(* The Callee Endpoint alone, fed any message by a harness that reads what *)
(* was posted before it feeds the next message.                            *)
(***************************************************************************)
RequestUuids == {Num(1), Num(2), MAX_VALUE}
RequestTargets ==
  {Undefined, Str("service"), Str("shazam"), Num(64), Num(0), Str("methods"), Str("worker")}
RequestMethods ==
  {Str("syncwork"), Str("asyncwork"), Str("shazam"), Num(64), Str("getServiceMethods"),
   Str("onterminate"), Str("push"), Str("resolve"), Str("reject"), Str("postMessage")}
RequestArgs == {Undefined, Arr(<<Num(2), Str("asyncwork")>>), Obj("{foo:42}"), Num(0)}
\* the request of the tests: { uuid, target: 'service', method: 'syncwork', args: [...] }
BaseRequest == Msg(Num(1), Str("service"), Str("syncwork"), Arr(<<Num(2), Str("asyncwork")>>))
\* in how many fields a request differs from the request of the tests
Distance(data) ==
  (IF data.uuid = BaseRequest.uuid THEN 0 ELSE 1)
  + (IF data.target = BaseRequest.target THEN 0 ELSE 1)
  + (IF data.method = BaseRequest.method THEN 0 ELSE 1)
  + (IF data.args = BaseRequest.args THEN 0 ELSE 1)
\* the messages fed: null, and the requests that differ from the request of
\* the tests in at most two fields
Requests ==
  {data \in {Msg(u, t, m, a) : u \in RequestUuids, t \in RequestTargets,
                               m \in RequestMethods, a \in RequestArgs} :
     Distance(data) <= 2} \cup {NullData}

Feed(data) ==
  /\ sent < MaxMsgs
  /\ toWorker = <<>>
  /\ toMain = <<>>
  /\ toWorker' = <<data>>
  /\ sent' = sent + 1
  /\ turn' = NoTurn
  /\ UNCHANGED <<setup, methods, jobs, hook, served, toMain, alive, callerVars, timeoutVars>>

Read ==
  /\ toMain # <<>>
  /\ toMain' = <<>>
  /\ UNCHANGED <<calleeVars, toWorker, sent, alive, callerVars, timeoutVars>>

InitCalleeAlone ==
  /\ InitCallee
  /\ InitTimeout
  /\ toWorker = <<>>
  /\ toMain = <<>>
  /\ alive = TRUE
  /\ sent = 0
  /\ calls = <<>>
  /\ promises = <<>>
  /\ service = [state |-> "pending", members |-> <<>>, val |-> Undefined]
  /\ seen = NothingSeen

NextCallee ==
  \/ \E data \in Requests : Feed(data)
  \/ \E beh \in Behaviours : WorkerOnMessage(beh)
  \/ \E i \in 1..MaxJobs, s \in Settlements : Settle(i, s)
  \/ Read

SpecCallee == InitCalleeAlone /\ [][NextCallee]_vars

(***************************************************************************)
(* The Caller Endpoint alone: a harness in the place of the Worker         *)
(* dispatches any message event to it.                                     *)
(***************************************************************************)
ResponseUuids == {Num(k) : k \in Keys} \cup {Undefined}
ResponseMethods == {Str("resolve"), Str("reject"), Str("shazam")}
ResponseArgs == {Arr(<< Arr(<<Str("syncwork")>>) >>), Undefined}
Responses ==
  {Msg(u, Undefined, m, a) : u \in ResponseUuids, m \in ResponseMethods, a \in ResponseArgs}
    \cup {NullData}

Inject(data) ==
  /\ sent < MaxMsgs
  /\ OnMessage(data)
  /\ sent' = sent + 1
  /\ toWorker' = IF seen'.killed THEN <<>> ELSE toWorker
  /\ UNCHANGED <<calleeVars, toMain, timeoutVars>>

InitCallerAlone ==
  /\ InitCaller
  /\ InitTimeout
  /\ setup = [methods |-> Undefined, onterminate |-> FALSE, service |-> <<>>]
  /\ methods = <<>>
  /\ jobs = <<>>
  /\ hook = Hooked(0, 0, 0, NoBinderSpec, Undefined)
  /\ turn = NoTurn
  /\ served = [c \in 1..MaxCalls |-> NoOutcome]

NextCaller ==
  \/ \E data \in Responses : Inject(data)
  \/ \E method \in Range(service.members), args \in CallArgs, k \in Keys :
       StandIn(method, args, k)
  \/ \E c \in 1..MaxCalls, throws \in BOOLEAN : Timeout(c, throws)
  \/ \E k \in Keys : Terminate(k)
  \/ Kill

SpecCaller == InitCallerAlone /\ [][NextCaller]_vars

(***************************************************************************)
(* The Callee Endpoint's setup alone: hookService called with any argument. *)
(***************************************************************************)
\* number of calls of hookService
MaxHooks == 2

\* a service with own members only: a method, and a value shadowing nothing
PlainChain ==
  << << [name |-> "syncwork", fn |-> TRUE], [name |-> "shazam", fn |-> FALSE] >> >>
\* a service whose own value shadows a method of its prototype
ShadowChain ==
  << << [name |-> "syncwork", fn |-> FALSE], [name |-> "stop", fn |-> TRUE] >>,
     << [name |-> "constructor", fn |-> TRUE], [name |-> "syncwork", fn |-> TRUE] >>,
     << [name |-> "asyncwork", fn |-> TRUE], [name |-> "stop", fn |-> TRUE] >> >>

HookWorkers == {Undefined, Obj("worker"), Obj("{}")}
HookServices ==
  {NoServiceObject(Undefined), NoServiceObject(Num(42)), ServiceObject(ServiceChain),
   ServiceObject(PlainChain), ServiceObject(ShadowChain), NullProtoObject(PlainChain)}
HookOnterminates == {Undefined, Fun("user", "onterminate"), Num(42), Num(0)}
HookMethods ==
  {Undefined, Arr(<<Str("syncwork"), Str("shazam")>>), Arr(<<Str("foo"), Num(42)>>),
   Arr(<<>>), Str("syncwork"), Num(0)}
HookInputs ==
  {BinderSpec(w, srv, o, m) : w \in HookWorkers, srv \in HookServices,
                              o \in HookOnterminates, m \in HookMethods}
    \cup {NoBinderSpec}

isWorkerGlobalScope(val) == isObject(val) /\ val = Obj("worker")

isValidMethodsOption_AnyArray(val) == Falsy(val) \/ val.t = "array"

isValidMethodsOption(val) ==
  Falsy(val) \/ (val.t = "array" /\ \A i \in DOMAIN val.l : isString(val.l[i]))

isValidServiceBinderSpec(val) ==
  /\ val.isobj
  /\ isWorkerGlobalScope(val.worker)
  /\ isObject(val.service.val)
  /\ (Falsy(val.onterminate) \/ isFunction(val.onterminate))
  /\ isValidMethodsOption(val.methods)

\* getPropertyNames walks up to the root Object prototype: isObjectPrototype
\* (null) is false, and the next call reads the own property names of null
isObjectPrototype(srv) == srv.rooted

\* hookService (spec): assert, then getPropertyNames, then
\* new WorkerServiceClass(config), whose constructor installs the handler
HookService(input) ==
  /\ hook.n < MaxHooks
  /\ IF ~isValidServiceBinderSpec(input)
     THEN /\ hook' = Hooked(hook.handler, hook.handler, hook.n + 1, input, InvalidArgument)
          /\ UNCHANGED <<setup, methods, turn>>
     ELSE IF ~isObjectPrototype(input.service)
     THEN /\ hook' = Hooked(hook.handler, hook.handler, hook.n + 1, input, EngineTypeError)
          /\ UNCHANGED <<setup, methods, turn>>
     ELSE /\ hook' = Hooked(hook.handler + 1, hook.handler, hook.n + 1, input, Undefined)
          /\ setup' = [methods |-> input.methods, service |-> input.service.chain,
                       onterminate |-> isFunction(input.onterminate)]
          /\ methods' = configMethods(input.service.chain, input.methods)
          /\ turn' = NoTurn
  /\ UNCHANGED <<jobs, served, toWorker, toMain, alive, sent, callerVars, timeoutVars>>

InitSetup ==
  /\ InitTimeout
  /\ setup = [methods |-> Undefined, onterminate |-> FALSE, service |-> <<>>]
  /\ methods = <<>>
  /\ jobs = <<>>
  /\ hook = Hooked(0, 0, 0, NoBinderSpec, Undefined)
  /\ turn = NoTurn
  /\ served = [c \in 1..MaxCalls |-> NoOutcome]
  /\ toWorker = <<>>
  /\ toMain = <<>>
  /\ alive = TRUE
  /\ sent = 0
  /\ calls = <<>>
  /\ promises = <<>>
  /\ service = [state |-> "pending", members |-> <<>>, val |-> Undefined]
  /\ seen = NothingSeen

NextSetup == \E input \in HookInputs : HookService(input)

SpecSetup == InitSetup /\ [][NextSetup]_vars

(***************************************************************************)
(* The Callee Endpoint bound again while it serves requests.               *)
(***************************************************************************)
\* the specs of the later bindings: other services, other allow-lists, and
\* one that is refused
RebindInputs ==
  {BinderSpec(Obj("worker"), ServiceObject(PlainChain), Undefined, Undefined),
   BinderSpec(Obj("worker"), ServiceObject(ShadowChain), Fun("user", "onterminate"),
              Arr(<<Str("stop"), Str("syncwork")>>)),
   BinderSpec(Obj("worker"), ServiceObject(ServiceChain), Undefined,
              Arr(<<Str("syncwork"), Str("shazam")>>)),
   BinderSpec(Obj("worker"), NullProtoObject(PlainChain), Undefined, Undefined),
   BinderSpec(Obj("{}"), ServiceObject(PlainChain), Undefined, Undefined)}

RebindRequests ==
  {Msg(Num(1), Str("service"), m, Arr(<<Num(2), Str("asyncwork")>>)) :
     m \in {Str("syncwork"), Str("asyncwork"), Str("stop"), Str("shazam")}}
    \cup {Msg(Num(1), Str("methods"), Str("push"), Arr(<<Num(2), Str("asyncwork")>>)),
          Msg(Num(1), Undefined, Str("getServiceMethods"), Undefined),
          Msg(Num(1), Undefined, Str("onterminate"), Undefined)}

NextRebind ==
  \/ \E input \in RebindInputs : HookService(input)
  \/ \E data \in RebindRequests : Feed(data)
  \/ \E beh \in Behaviours : WorkerOnMessage(beh)
  \/ \E i \in 1..MaxJobs, s \in Settlements : Settle(i, s)
  \/ Read

SpecRebind == InitCalleeAlone /\ [][NextRebind]_vars

(***************************************************************************)
(* The deadlines of the calls of several Caller Endpoints.                 *)
(***************************************************************************)
\* number of Caller Endpoints made
MaxInstances == 2

\* opts.timeout of newInstance (path, opts); Undefined: no opts or no timeout
TimeoutOpts == {Undefined, Num(0), Num(1000), Num(2000)}
\* data.timeout of call (spec); Undefined: none
PerCallTimeouts == {Undefined, Num(0), Num(500)}

\* newInstance (path, opts): sets the static timeout, then the constructor
\* places the getServiceMethods call
newInstance(opts) ==
  /\ Len(deadline.endpoints) < MaxInstances
  /\ LET t == IF Falsy(opts) THEN timeout ELSE opts
     IN /\ timeout' = t
        /\ deadline' = Deadline(Append(deadline.endpoints, opts),
                                Len(deadline.endpoints) + 1, Undefined, t)
  /\ UNCHANGED <<calleeVars, callerVars, toWorker, toMain, alive, sent>>

\* call (spec) of endpoint e: .timeout(data.timeout || ServiceProxyClass.timeout)
PlaceCall(e, percall) ==
  /\ e \in DOMAIN deadline.endpoints
  /\ deadline' = Deadline(deadline.endpoints, e, percall, TimeoutOf(percall))
  /\ UNCHANGED <<timeout, calleeVars, callerVars, toWorker, toMain, alive, sent>>

InitTimeoutAlone ==
  /\ timeout = Num(DefaultTimeout)
  /\ deadline = Deadline(<<>>, 0, Undefined, Undefined)
  /\ setup = [methods |-> Undefined, onterminate |-> FALSE, service |-> <<>>]
  /\ methods = <<>>
  /\ jobs = <<>>
  /\ hook = Hooked(0, 0, 0, NoBinderSpec, Undefined)
  /\ turn = NoTurn
  /\ served = [c \in 1..MaxCalls |-> NoOutcome]
  /\ toWorker = <<>>
  /\ toMain = <<>>
  /\ alive = TRUE
  /\ sent = 0
  /\ calls = <<>>
  /\ promises = <<>>
  /\ service = [state |-> "pending", members |-> <<>>, val |-> Undefined]
  /\ seen = NothingSeen

NextTimeout ==
  \/ \E opts \in TimeoutOpts : newInstance(opts)
  \/ \E e \in 1..MaxInstances, percall \in PerCallTimeouts : PlaceCall(e, percall)

SpecTimeout == InitTimeoutAlone /\ [][NextTimeout]_vars

(***************************************************************************)
(* The claims.                                                             *)
(***************************************************************************)
\* call c failed with the Timeout error
TimedOut(c) == promises[c].state = "rejected" /\ promises[c].val = TimeoutError
\* posts is exactly one reject response that carries uuid and a descriptor
\* with this name and message
OneReject(posts, uuid, name, message) ==
  /\ Len(posts) = 1
  /\ posts[1].method = Str("reject")
  /\ posts[1].uuid = uuid
  /\ NameOf(Arg(posts[1].args, 1)) = name
  /\ MessageOf(Arg(posts[1].args, 1)) = message

\* C1: whenever a response settles a call, it is the response to that call's
\* own request: no call is settled with the outcome of another call.
C1_SettledByOwnResponse ==
  (seen.kind = "message" /\ seen.settled # 0) => seen.data.of = seen.settled

\* C1, the failing case: the response to one call's request settles another call
C1_SettledByOtherResponse ==
  /\ seen.kind = "message"
  /\ seen.settled # 0
  /\ seen.data.of \in DOMAIN promises
  /\ seen.data.of # seen.settled

\* C2: when the deadline of a call elapses and no message carrying its uuid
\* has arrived while it was outstanding, the call fails with the Timeout error
\* and the Identifier Allocator holds no record of it.
C2_DeadlineRemovesAndTimesOut ==
  (seen.kind = "timeout" /\ ~promises[seen.call].heard)
    => /\ TimedOut(seen.call)
       /\ \A k \in DOMAIN calls : calls[k] # seen.call

\* C2, the failing case: the deadline of such a call elapses and the call fails
\* with what pop throws for its absent key
C2_DeadlineFailsOtherwise ==
  /\ seen.kind = "timeout"
  /\ ~promises[seen.call].heard
  /\ promises[seen.call].val = AbsentKeyError

\* C3: the response to the request of a call that has timed out settles no
\* call and raises no error.
C3_LateResponseIgnored ==
  (seen.kind = "message" /\ seen.data.of \in DOMAIN promises /\ TimedOut(seen.data.of))
    => (seen.settled = 0 /\ ~seen.threw)

\* C3, the failing case: the late response settles a call issued after the timeout
C3_LateResponseSettles ==
  /\ seen.kind = "message"
  /\ seen.data.of \in DOMAIN promises
  /\ TimedOut(seen.data.of)
  /\ seen.settled > seen.data.of

\* the service methods whose name the allow-list of the setup does not hold
NotAllowed(fn) ==
  /\ ~Falsy(setup.methods)
  /\ fn.m = "service"
  /\ ~IndexOf(setup.methods.l, Str(fn.s))

\* C4: bound with an allow-list, the Callee Endpoint invokes no service method
\* whose name is not in the allow-list, and answers a request naming such a
\* method with an 'unknown method' rejection.
C4_OnlyAllowListedInvoked ==
  /\ \A i \in DOMAIN turn.invoked : ~NotAllowed(turn.invoked[i].fn)
  /\ (/\ turn.kind = "message"
      /\ ~turn.data.nul
      /\ isSafeInteger(turn.data.uuid)
      /\ turn.data.target = Str("service")
      /\ turn.data.args \in {Undefined, Arr(<<Num(2), Str("asyncwork")>>)}
      /\ NotAllowed(ServiceMember(turn.data.method)))
     => OneReject(turn.posts, turn.data.uuid, "Error", "unknown method")

\* C4, the failing case: a service method outside the allow-list is invoked
C4_NotAllowedInvoked ==
  \E i \in DOMAIN turn.invoked : NotAllowed(turn.invoked[i].fn)

\* C5: the Exposed Method Set used for dispatch and returned by
\* getServiceMethods is the one computed at setup.
C5_ExposedMethodSetFixed == methods = hookService(setup)

\* C5, the failing case: getServiceMethods answers with a list that is not the
\* one computed at setup
C5_OtherListReturned ==
  /\ turn.kind = "message"
  /\ turn.applied = Fun("this", "getServiceMethods")
  /\ turn.outcome.val # Arr(hookService(setup))

\* C6: every turn of the Callee Endpoint in which the dispatch of a message
\* fails posts a 'reject' response that carries the uuid of that message.
C6_FailureReported ==
  turn.outcome.kind = "throw"
    => \E i \in DOMAIN turn.posts :
         turn.posts[i].method = Str("reject") /\ turn.posts[i].uuid = turn.uuid

\* C6, the failing case: the asynchronous result of the invoked method fails
\* and nothing is posted
C6_FailureUnreported ==
  /\ turn.kind = "settle"
  /\ turn.outcome.kind = "throw"
  /\ turn.posts = <<>>

\* a request of the shape the protocol asks for
WellFormed(data) ==
  /\ ~data.nul
  /\ isSafeInteger(data.uuid)
  /\ isString(data.method)
  /\ (data.target = Undefined \/ isString(data.target))
  /\ (data.args = Undefined \/ isArrayLike(data.args))

\* C7: a well-formed request that names an unknown method ('shazam') or carries
\* an unrecognized target ('shazam') is answered with exactly one response, a
\* 'reject' with its uuid and the descriptor Error 'unknown method', and no
\* service method is invoked.
C7_UnknownRejected ==
  (/\ turn.kind = "message"
   /\ WellFormed(turn.data)
   /\ (turn.data.method = Str("shazam") \/ turn.data.target = Str("shazam")))
    => /\ OneReject(turn.posts, turn.data.uuid, "Error", "unknown method")
       /\ turn.invoked = <<>>

\* C7, the failing case: a request with an unrecognized target is answered
\* with a 'resolve'
C7_UnrecognizedTargetResolved ==
  /\ turn.kind = "message"
  /\ WellFormed(turn.data)
  /\ turn.data.target = Str("shazam")
  /\ \E i \in DOMAIN turn.posts : turn.posts[i].method = Str("resolve")

\* C8, as amended: a request (an object) whose uuid is not a safe integer,
\* whose method is not a string, whose target is truthy but not a string, or
\* whose args is truthy but not array-like, is answered with exactly one
\* response, a 'reject' with the descriptor TypeError 'invalid argument' and
\* the uuid of the request unchanged, and no method is invoked.
C8_InvalidRejected ==
  (/\ turn.kind = "message"
   /\ ~turn.data.nul
   /\ \/ ~isSafeInteger(turn.data.uuid)
      \/ ~isString(turn.data.method)
      \/ (~Falsy(turn.data.target) /\ ~isString(turn.data.target))
      \/ (~Falsy(turn.data.args) /\ ~isArrayLike(turn.data.args)))
    => /\ OneReject(turn.posts, turn.data.uuid, "TypeError", "invalid argument")
       /\ turn.applied = Undefined
       /\ turn.invoked = <<>>

\* C8, the case: a request whose args is an object without a length has been
\* answered
C8_InvalidArgsAnswered ==
  /\ turn.kind = "message"
  /\ turn.data.args = Obj("{foo:42}")
  /\ isSafeInteger(turn.data.uuid)
  /\ isString(turn.data.method)
  /\ turn.data.target = Str("service")
  /\ turn.posts # <<>>

\* C8, as stated: the same for a target that is present (not undefined) but
\* not a string and for args that is present but not array-like.
C8_PresentInvalidRejected ==
  (/\ turn.kind = "message"
   /\ ~turn.data.nul
   /\ \/ ~isSafeInteger(turn.data.uuid)
      \/ ~isString(turn.data.method)
      \/ (turn.data.target # Undefined /\ ~isString(turn.data.target))
      \/ (turn.data.args # Undefined /\ ~isArrayLike(turn.data.args)))
    => /\ OneReject(turn.posts, turn.data.uuid, "TypeError", "invalid argument")
       /\ turn.applied = Undefined
       /\ turn.invoked = <<>>

\* the response to call c's request as the Callee Endpoint posts it
Answer(c, method, val) ==
  [Msg(Num(promises[c].uuid), Undefined, Str(method), Arr(<<val>>)) EXCEPT !.of = c]

\* C9: when the service method invoked for a call returns V, or the promise it
\* returned resolves to V, the Callee Endpoint posts { uuid, 'resolve', [V] }
\* and the call, unless its deadline elapsed first, fulfills with V.
C9_RoundTripSuccess ==
  \A c \in DOMAIN promises :
    (c > 1 /\ served[c].kind = "return")
      => /\ (turn.posts # <<>> /\ turn.posts[1].of = c)
              => turn.posts = << Answer(c, "resolve", served[c].val) >>
         /\ (promises[c].state # "pending" /\ ~TimedOut(c))
              => (promises[c].state = "fulfilled" /\ promises[c].val = served[c].val)

\* C9, the failing case: the service method returned V for a call that failed
\* with something else than the Timeout error
C9_ReturnedButRejected ==
  \E c \in DOMAIN promises :
    /\ c > 1
    /\ served[c].kind = "return"
    /\ promises[c].state = "rejected"
    /\ ~TimedOut(c)

\* C10: when the service method invoked for a call throws the Error E, or the
\* promise it returned fails with E, the Callee Endpoint posts a 'reject' whose
\* descriptor carries E's name, message and stack, and the call, unless its
\* deadline elapsed first, fails with an error of E's name and message.
C10_RoundTripFailure ==
  \A c \in DOMAIN promises :
    (c > 1 /\ served[c].kind = "throw" /\ served[c].val.t = "error")
      => /\ (turn.posts # <<>> /\ turn.posts[1].of = c)
              => turn.posts =
                   << Answer(c, "reject", Descriptor(served[c].val.s, served[c].val.m,
                                                     served[c].val.l)) >>
         /\ (promises[c].state # "pending" /\ ~TimedOut(c))
              => /\ promises[c].state = "rejected"
                 /\ NameOf(promises[c].val) = NameOf(served[c].val)
                 /\ MessageOf(promises[c].val) = MessageOf(served[c].val)

\* C10, the failing case: the service method threw E for a call that fulfilled
C10_ThrewButFulfilled ==
  \E c \in DOMAIN promises :
    /\ c > 1
    /\ served[c].kind = "throw"
    /\ served[c].val.t = "error"
    /\ promises[c].state = "fulfilled"

\* the outcome of call c is the one its own request was served with
OwnOutcome(c) ==
  \/ /\ promises[c].state = "fulfilled"
     /\ served[c].kind = "return"
     /\ promises[c].val = served[c].val
  \/ /\ promises[c].state = "rejected"
     /\ served[c].kind = "throw"
     /\ NameOf(promises[c].val) = NameOf(served[c].val)
     /\ MessageOf(promises[c].val) = MessageOf(served[c].val)

\* C11: a call that has settled either failed with the Timeout error or
\* settled with the value or the error of the response to its own request.
C11_SettledWithResponseOrTimeout ==
  \A c \in DOMAIN promises :
    promises[c].state # "pending" => (TimedOut(c) \/ OwnOutcome(c))

\* C11, the failing case: a call is settled by a response while its own
\* request has not been served
C11_SettledBeforeServed ==
  \E c \in DOMAIN promises :
    /\ promises[c].state # "pending"
    /\ ~TimedOut(c)
    /\ served[c].kind = "none"

\* C12: the message turn in which terminate() destroys the Worker is the one
\* that fulfills its 'onterminate' call, and the termination callback has
\* succeeded for that call; a turn in which that call fails destroys nothing.
C12_TerminateKillsAfterSuccess ==
  /\ (seen.kind = "message" /\ seen.killed)
       => /\ seen.settled \in DOMAIN promises
          /\ IsTerminate(seen.settled)
          /\ promises[seen.settled].state = "fulfilled"
          /\ served[seen.settled].kind = "return"
  /\ \A c \in DOMAIN promises :
       (IsTerminate(c) /\ promises[c].state = "fulfilled") => ~alive
  /\ (seen.kind = "message" /\ seen.settled \in DOMAIN promises
        /\ promises[seen.settled].state = "rejected") => ~seen.killed
  /\ seen.kind = "timeout" => ~seen.killed

\* C12, the failing case: terminate() destroys the Worker although the
\* termination callback has not succeeded for its call
C12_KilledWithoutSuccess ==
  /\ seen.kind = "message"
  /\ seen.killed
  /\ served[seen.settled].kind # "return"

\* C13: kill() destroys the Worker in whatever state it is called, posts
\* nothing and does not fail.
C13_KillDestroys ==
  /\ [](ENABLED Kill)
  /\ [][seen'.kind = "kill"
          => /\ ~alive'
             /\ Len(toWorker') <= Len(toWorker)
             /\ ~seen'.threw
             /\ promises' = promises /\ calls' = calls]_vars

\* C13, the case: the Worker has been destroyed by kill() while calls were
\* outstanding and before the method list arrived
C13_KilledWithCallsOutstanding ==
  /\ seen.kind = "kill"
  /\ ~alive
  /\ service.state = "pending"
  /\ Len(promises) > 1
  /\ \A c \in DOMAIN promises : promises[c].state = "pending"

\* the last call of hookService threw 'invalid argument' and left
\* worker.onmessage as it was
SetupRefused ==
  /\ NameOf(hook.error) = "TypeError"
  /\ MessageOf(hook.error) = "invalid argument"
  /\ hook.handler = hook.before

StringArray(val) == val.t = "array" /\ \A i \in DOMAIN val.l : val.l[i].t = "string"

\* the parts of an invalid setup spec that do not depend on what "present" means
InvalidChannelOrService(input) ==
  \/ ~input.isobj
  \/ input.worker \notin {Obj("worker")}
  \/ input.service.val.t # "object"

\* an invalid setup spec, as the code reads "present": truthy
InvalidSetup(input) ==
  \/ InvalidChannelOrService(input)
  \/ (~Falsy(input.onterminate) /\ input.onterminate.t # "function")
  \/ (~Falsy(input.methods) /\ ~StringArray(input.methods))

CallableNames(chain) ==
  LET Named(i, name) == \E j \in DOMAIN chain[i] : chain[i][j].name = name
      CallableAt(i, name) ==
        \E j \in DOMAIN chain[i] : chain[i][j].name = name /\ chain[i][j].fn
      all == UNION {{chain[i][j].name : j \in DOMAIN chain[i]} : i \in DOMAIN chain}
  IN {Str(name) : name \in
        {name \in all \ {"constructor"} :
           \E i \in DOMAIN chain :
             CallableAt(i, name) /\ \A h \in 1..(i - 1) : ~Named(h, name)}}

ExposedAsClaimed(input) ==
  IF Falsy(input.methods) THEN CallableNames(input.service.chain)
  ELSE CallableNames(input.service.chain) \cap Range(input.methods.l)

\* C15: for every valid setup spec, setup establishes an Exposed Method Set
\* that is the set of names of the service's own and inherited callable
\* members except constructor, intersected with the allow-list when one is
\* supplied.
C15_ExposedMethodSet ==
  (hook.n > 0 /\ ~InvalidSetup(hook.input))
    => /\ hook.error = Undefined
       /\ hook.handler = hook.before + 1
       /\ Range(methods) = ExposedAsClaimed(hook.input)
       /\ Cardinality(Range(methods)) = Len(methods)

\* C15 witness: a valid setup spec whose service has no prototype; setup
\* throws and establishes nothing
C15_NullPrototypeServiceThrows ==
  /\ hook.n > 0
  /\ ~InvalidSetup(hook.input)
  /\ ~hook.input.service.rooted
  /\ CallableNames(hook.input.service.chain) # {}
  /\ hook.error = EngineTypeError
  /\ hook.handler = hook.before

\* C16: a well-formed request with method getServiceMethods and no target is
\* answered, in every state of the binding, with exactly one response, a
\* 'resolve' that carries its uuid and, as its single value, the member list
\* of the Exposed Method Set computed at setup.
C16_MethodListAnswered ==
  (/\ turn.kind = "message"
   /\ WellFormed(turn.data)
   /\ turn.data.target = Undefined
   /\ turn.data.method = Str("getServiceMethods"))
    => /\ Len(turn.posts) = 1
       /\ turn.posts[1].uuid = turn.data.uuid
       /\ turn.posts[1].method = Str("resolve")
       /\ turn.posts[1].args = Arr(<< Arr(hookService(setup)) >>)
       /\ turn.invoked = <<>>

\* C16, the failing case: the request is answered with one 'resolve' whose
\* list holds a name that the Exposed Method Set does not
C16_ForeignNameListed ==
  /\ turn.kind = "message"
  /\ WellFormed(turn.data)
  /\ turn.data.target = Undefined
  /\ turn.data.method = Str("getServiceMethods")
  /\ Len(turn.posts) = 1
  /\ turn.posts[1].method = Str("resolve")
  /\ \E name \in Range(Arg(turn.posts[1].args, 1).l) : ~IndexOf(hookService(setup), name)

\* C17: the first call of a Caller Endpoint, hence the first message it posts,
\* is the getServiceMethods request without target; this.service is pending
\* exactly as long as that call is; when the response to that request
\* fulfills the call, this.service fulfills with a stand-in that has exactly
\* one member per name of the list received, the list the Callee Endpoint
\* holds; when the call fails or times out, this.service fails likewise.
C17_ServiceFollowsFirstCall ==
  /\ promises # <<>>
  /\ promises[1].method = Str("getServiceMethods")
  /\ promises[1].target = Undefined
  /\ \A i \in DOMAIN toWorker : toWorker[i].of = 1 => i = 1
  /\ \A c \in DOMAIN promises : c # 1 => promises[c].method # Str("getServiceMethods")
  /\ (service.state = "pending") <=> (promises[1].state = "pending")
  /\ service.state # "pending" => (promises[1].heard \/ TimedOut(1))
  /\ service.state = "fulfilled"
       => /\ promises[1].state = "fulfilled"
          /\ promises[1].heard
          /\ promises[1].val = Arr(methods)
          /\ Range(service.members) = Range(promises[1].val.l)
          /\ Len(service.members) = Cardinality(Range(promises[1].val.l))
  /\ service.state = "rejected"
       => (promises[1].state = "rejected" /\ service.val = promises[1].val)

\* C17 witness: the response to the first call arrived, the stand-in has its
\* members and one of them was invoked
C17_StandInBuiltAndUsed ==
  /\ service.state = "fulfilled"
  /\ Len(service.members) > 1
  /\ promises[1].heard
  /\ \E c \in DOMAIN promises : c > 1 /\ promises[c].target = Str("service")

\* C18: every step in which a member of the stand-in is invoked posts exactly
\* one message, the request { uuid, target: 'service', method, args } with the
\* member's name, the arguments supplied and a uuid that no call on record
\* holds, and returns a pending promise that the allocator holds under that
\* uuid.
C18_StandInForwards ==
  [][(/\ Len(promises') = Len(promises) + 1
      /\ promises'[Len(promises')].target = Str("service"))
       => LET c == Len(promises')
              k == promises'[c].uuid
          IN /\ service.state = "fulfilled"
             /\ seen'.kind = "call"
             /\ seen'.call = c
             /\ seen'.spec.method \in Range(service.members)
             /\ toWorker' = Append(toWorker,
                                   [ uuid |-> Num(k), target |-> Str("service"),
                                     method |-> seen'.spec.method,
                                     args |-> seen'.spec.args, nul |-> FALSE, of |-> c ])
             /\ toMain' = toMain
             /\ k \notin DOMAIN calls
             /\ DOMAIN calls' = DOMAIN calls \cup {k}
             /\ calls'[k] = c
             /\ \A x \in DOMAIN calls : calls'[x] = calls[x]
             /\ promises'[c].state = "pending"
             /\ \A b \in DOMAIN promises : promises'[b] = promises[b]]_vars

\* C18 witness: a member of the stand-in was invoked with two arguments, and
\* the request that carries them is the last message posted
C18_ForwardedWithArguments ==
  /\ seen.kind = "call"
  /\ seen.spec.target = Str("service")
  /\ seen.spec.args = Arr(<<Str("foo"), Str("bar")>>)
  /\ toWorker # <<>>
  /\ toWorker[Len(toWorker)].args = seen.spec.args
  /\ toWorker[Len(toWorker)].method = seen.spec.method
  /\ toWorker[Len(toWorker)].uuid = Num(promises[seen.call].uuid)
  /\ promises[seen.call].state = "pending"

\* C19: the deadline applied to a call is its per-call timeout when it
\* specifies one, otherwise the timeout override its Caller Endpoint was made
\* with, otherwise 180000 ms, whatever Caller Endpoints were made before.
C19_DeadlineAsConfigured ==
  deadline.endpoint > 0
    => deadline.applied =
         IF deadline.percall # Undefined THEN deadline.percall
         ELSE IF deadline.endpoints[deadline.endpoint] # Undefined
              THEN deadline.endpoints[deadline.endpoint]
              ELSE Num(180000)

\* C19, the failing case: a call without per-call timeout, placed by a Caller
\* Endpoint made without override, is given the override of another endpoint
C19_OverrideOfOtherEndpointApplied ==
  /\ deadline.endpoint > 0
  /\ deadline.percall = Undefined
  /\ deadline.endpoints[deadline.endpoint] = Undefined
  /\ deadline.applied # Num(180000)
  /\ \E e \in DOMAIN deadline.endpoints :
       e # deadline.endpoint /\ deadline.endpoints[e] = deadline.applied

\* C20: a message that carries the uuid of a pending record and a method that
\* is neither 'resolve' nor 'reject' removes the record and settles no call;
\* the call whose record was removed stays pending until its deadline elapses
\* and then fails with the Timeout error.
C20_DroppedCallTimesOut ==
  /\ (/\ seen.kind = "message"
      /\ seen.popped # 0
      /\ seen.data.method \notin {Str("resolve"), Str("reject")})
       => /\ seen.settled = 0
          /\ promises[seen.popped].dropped
          /\ promises[seen.popped].state = "pending"
          /\ \A k \in DOMAIN calls : calls[k] # seen.popped
  /\ \A c \in DOMAIN promises :
       promises[c].dropped => (promises[c].state = "pending" \/ TimedOut(c))

\* C20, the failing case: the deadline of a call whose record such a message
\* removed elapses, and the call fails with what pop throws for its absent key
C20_DroppedCallFailsOtherwise ==
  /\ seen.kind = "timeout"
  /\ promises[seen.call].dropped
  /\ seen.threw
  /\ promises[seen.call].state = "rejected"
  /\ promises[seen.call].val = AbsentKeyError

\* the step is a turn of the Caller Endpoint's onmessage, for the message
\* seen'.data
MessageTurn ==
  /\ seen'.kind = "message"
  /\ \/ sent' = sent + 1
     \/ (toMain # <<>> /\ toMain' = Tail(toMain))

\* what the consumer can observe of the calls: their promises
Outcomes(ps) == [c \in DOMAIN ps |-> <<ps[c].state, ps[c].val, ps[c].timer>>]

\* C21: a turn of the Caller Endpoint's onmessage for a message whose uuid
\* has no record in the Identifier Allocator changes neither the allocator
\* nor any call nor this.service, posts nothing and destroys nothing.
C21_UnmatchedIgnored ==
  [][(/\ MessageTurn
      /\ ~seen'.data.nul
      /\ \A k \in DOMAIN calls : seen'.data.uuid # Num(k))
       => /\ calls' = calls
          /\ Outcomes(promises') = Outcomes(promises)
          /\ service' = service
          /\ toWorker' = toWorker
          /\ alive' = alive
          /\ ~seen'.threw
          /\ seen'.popped = 0
          /\ seen'.settled = 0]_vars

\* C21 witness: a 'resolve' without record was handled while a call was
\* pending under another uuid
C21_UnmatchedWhilePending ==
  /\ seen.kind = "message"
  /\ ~seen.data.nul
  /\ seen.data.method = Str("resolve")
  /\ seen.popped = 0
  /\ \A k \in DOMAIN calls : seen.data.uuid # Num(k)
  /\ \E k \in DOMAIN calls : promises[calls[k]].state = "pending"

\* C22: at every moment no two outstanding (pending) calls of the Caller
\* Endpoint hold the same uuid, and every record of the Identifier Allocator
\* is stored under the uuid of the call it belongs to.
C22_UuidUniqueAmongOutstanding ==
  /\ \A a, b \in DOMAIN promises :
       (a # b /\ promises[a].state = "pending" /\ promises[b].state = "pending")
         => promises[a].uuid # promises[b].uuid
  /\ \A k \in DOMAIN calls : promises[calls[k]].uuid = k

\* C22, the failing case: a call whose record a malformed response removed is
\* still outstanding when its uuid is handed to a later call
C22_UuidSharedWithDroppedCall ==
  \E a, b \in DOMAIN promises :
    /\ a < b
    /\ promises[a].state = "pending"
    /\ promises[a].dropped
    /\ promises[b].state = "pending"
    /\ promises[a].uuid = promises[b].uuid
    /\ promises[b].uuid \in DOMAIN calls
    /\ calls[promises[b].uuid] = b

\* C23: every pop of the Caller Endpoint removes a record: the timeout path
\* of a call never runs pop while no record is stored under the call's uuid,
\* and no pop throws.
C23_PopOnlyStored ==
  /\ seen.kind = "timeout" => (seen.popped # 0 /\ ~seen.threw)
  /\ (seen.kind = "message" /\ ~seen.data.nul) => ~seen.threw

\* C23, the failing case: the deadline of a call elapses when no record is
\* stored under its uuid, and the timeout path pops that uuid
C23_TimeoutPopsAbsentKey ==
  /\ seen.kind = "timeout"
  /\ seen.popped = 0
  /\ promises[seen.call].uuid \notin DOMAIN calls

\* C24: once a call is settled its timer is disarmed; no later step changes
\* its outcome, and the timeout path never runs for it, so that it removes
\* no record on its behalf.
C24_TimeoutCancelled ==
  [][\A c \in DOMAIN promises :
       promises[c].state # "pending"
         => /\ ~promises[c].timer
            /\ Outcomes(promises')[c] = Outcomes(promises)[c]
            /\ ~(seen'.kind = "timeout" /\ seen' # seen /\ seen'.call = c)]_vars

\* C24 witness: a call was fulfilled by a response, and the deadline of
\* another call elapsed afterwards
C24_TimeoutAfterSettlement ==
  \E c \in DOMAIN promises :
    /\ promises[c].state = "fulfilled"
    /\ promises[c].heard
    /\ ~promises[c].timer
    /\ seen.kind = "timeout"
    /\ seen.call > c

\* the target of the request is absent, or names no member of the Callee
\* Endpoint that is an object
NoAliasTarget(data) ==
  data.target \notin {Str("service"), Str("worker"), Str("methods")}

\* the request names a method of the Exposed Method Set
NamesExposedMethod(data) == IndexOf(hookService(setup), data.method)

\* C25 (as amended): a well-formed request whose target is absent or names
\* no object-valued member of the Callee Endpoint is dispatched to the Callee
\* Endpoint itself: when it names a method of the Exposed Method Set that is
\* no member of the Callee Endpoint itself, no service method is invoked and
\* it is answered with one 'reject' carrying 'unknown method'.
C25_ServiceOnlyByItsAlias ==
  (/\ turn.kind = "message"
   /\ WellFormed(turn.data)
   /\ NoAliasTarget(turn.data)
   /\ NamesExposedMethod(turn.data)
   /\ ~isFunction(ThisMember(turn.data.method, methods, setup)))
       => /\ turn.invoked = <<>>
          /\ OneReject(turn.posts, turn.data.uuid, "Error", "unknown method")

\* C25 witness: a request without target that names the exposed method
\* syncwork is answered 'unknown method'
C25_TargetlessServiceCallRejected ==
  /\ turn.kind = "message"
  /\ WellFormed(turn.data)
  /\ turn.data.target = Undefined
  /\ turn.data.method = Str("syncwork")
  /\ NamesExposedMethod(turn.data)
  /\ turn.invoked = <<>>
  /\ OneReject(turn.posts, turn.data.uuid, "Error", "unknown method")

\* C25 as stated: a well-formed request whose target is absent or no known
\* internal alias, and that names a method of the Exposed Method Set, invokes
\* that service method.
C25_ServiceIsDefaultTarget ==
  (/\ turn.kind = "message"
   /\ WellFormed(turn.data)
   /\ NoAliasTarget(turn.data)
   /\ NamesExposedMethod(turn.data))
    => /\ Len(turn.invoked) = 1
       /\ turn.invoked[1].fn = Fun("service", turn.data.method.s)

\* the termination callback given at setup
TerminationCallback == Fun("user", "onterminate")

\* posts is the single response that reports this outcome for uuid
Reported(posts, uuid, outcome) ==
  /\ Len(posts) = 1
  /\ posts[1].uuid = uuid
  /\ outcome.kind = "return"
       => (posts[1].method = Str("resolve") /\ posts[1].args = Arr(<<outcome.val>>))
  /\ outcome.kind = "throw" => posts[1].method = Str("reject")

\* C26: the termination callback is invoked only in the turn that handles a
\* request with method onterminate, once, and what it returns, throws or, as
\* a promise, settles to is reported by exactly one response to that request.
C26_CallbackOnlyOnRequest ==
  /\ (\E i \in DOMAIN turn.invoked : turn.invoked[i].fn = TerminationCallback)
       => /\ turn.kind = "message"
          /\ turn.data.method = Str("onterminate")
          /\ Len(turn.invoked) = 1
  /\ (turn.kind = "message" /\ turn.applied = TerminationCallback)
       => IF turn.outcome.kind = "pending" THEN turn.posts = <<>>
          ELSE Reported(turn.posts, turn.data.uuid, turn.outcome)
  /\ (turn.kind = "settle" /\ turn.job = TerminationCallback)
       => Reported(turn.posts, turn.uuid, turn.outcome)

\* C26, the failing case: the termination callback, invoked for an
\* onterminate request, failed and no response was posted
C26_CallbackFailureUnreported ==
  /\ turn.kind \in {"message", "settle"}
  /\ TerminationCallback \in {turn.applied, turn.job}
  /\ turn.outcome.kind = "throw"
  /\ turn.posts = <<>>

\* the Exposed Method Set the binding in force stands for: the callable
\* members of its service, within its allow-list when it has one
ExposedByBinding ==
  IF Falsy(setup.methods) THEN CallableNames(setup.service)
  ELSE CallableNames(setup.service) \cap Range(setup.methods.l)

\* C27: after a second binding on the same channel, each well-formed request
\* for the service is dispatched only against the service and the Exposed
\* Method Set of the second binding, and is answered at most once: a method
\* of that set is invoked, any other is answered 'unknown method' without an
\* invocation.
C27_LastBinderWins ==
  (/\ hook.handler > 1
   /\ turn.kind = "message"
   /\ WellFormed(turn.data)
   /\ turn.data.target = Str("service"))
    => /\ Len(turn.posts) <= 1
       /\ IF turn.data.method \in ExposedByBinding
          THEN /\ Len(turn.invoked) = 1
               /\ turn.invoked[1].fn = Fun("service", turn.data.method.s)
          ELSE /\ turn.invoked = <<>>
               /\ OneReject(turn.posts, turn.data.uuid, "Error", "unknown method")

\* C27, the failing case: after the second binding, a request invoked a
\* method of the service that is outside the second binding's Exposed Method
\* Set
C27_OutsideSecondBinding ==
  /\ hook.handler > 1
  /\ turn.kind = "message"
  /\ turn.data.target = Str("service")
  /\ isString(turn.data.method)
  /\ turn.data.method \notin ExposedByBinding
  /\ \E i \in DOMAIN turn.invoked : turn.invoked[i].fn = Fun("service", turn.data.method.s)

C29_TimeoutPopsOwnRecord ==
  seen.kind = "timeout" => seen.popped \in {0, seen.call}

\* C29, the failing case: the deadline of a call whose record a malformed
\* response removed elapses, and its timeout path removes the record of a
\* later call that holds the same uuid and is still outstanding
C29_TimeoutPopsLaterCall ==
  /\ seen.kind = "timeout"
  /\ seen.popped \in DOMAIN promises
  /\ seen.popped > seen.call
  /\ promises[seen.call].dropped
  /\ promises[seen.popped].uuid = promises[seen.call].uuid
  /\ promises[seen.popped].state = "pending"
  /\ promises[seen.popped].uuid \notin DOMAIN calls

\* C30: for each well-formed inbound request, whatever its target and
\* method, the Callee Endpoint posts exactly one message: in the turn that
\* handles the request when the outcome is known then, and otherwise in the
\* turn in which the pending outcome settles.
C30_OneMessagePerRequest ==
  /\ (turn.kind = "message" /\ WellFormed(turn.data))
       => Len(turn.posts) = IF turn.outcome.kind = "pending" THEN 0 ELSE 1
  /\ turn.kind = "settle" => Len(turn.posts) = 1

\* C30, the failing case: a request that names the Callee Endpoint's own
\* resolve or reject is answered with two messages
C30_InternalMemberPostsTwice ==
  /\ turn.kind = "message"
  /\ WellFormed(turn.data)
  /\ turn.data.target = Undefined
  /\ turn.data.method \in {Str("resolve"), Str("reject")}
  /\ Len(turn.posts) = 2

\* C31: every message the Callee Endpoint posts is the response to a request
\* it received: it is a 'resolve' or 'reject' that carries the uuid of the
\* request handled in that turn, or of the request whose pending outcome
\* settles in that turn; no request has a response posted under another uuid
\* with content taken from its args.
C31_PostsAnswerOwnRequest ==
  /\ (turn.kind = "message" /\ WellFormed(turn.data))
       => \A i \in DOMAIN turn.posts :
            /\ ~turn.posts[i].nul
            /\ turn.posts[i].uuid = turn.data.uuid
            /\ turn.posts[i].method \in {Str("resolve"), Str("reject")}
  /\ turn.kind = "settle"
       => \A i \in DOMAIN turn.posts : turn.posts[i].uuid = turn.uuid

\* C31, the failing case: a request that names the Callee Endpoint's own
\* resolve has a 'resolve' posted under the uuid its first argument gives,
\* another than its own, with its second argument as the result
C31_ForgedResponse ==
  /\ turn.kind = "message"
  /\ WellFormed(turn.data)
  /\ turn.data.method = Str("resolve")
  /\ isSafeInteger(Arg(turn.data.args, 1))
  /\ Arg(turn.data.args, 1) # turn.data.uuid
  /\ \E i \in DOMAIN turn.posts :
       /\ turn.posts[i].uuid = Arg(turn.data.args, 1)
       /\ turn.posts[i].method = Str("resolve")
       /\ turn.posts[i].args = Arr(<<Arg(turn.data.args, 2)>>)

\* C32: when the Callee Endpoint was bound without a termination callback,
\* an onterminate request is answered with one 'reject' carrying 'unknown
\* method' and nothing is invoked; no call placed by terminate() fulfills,
\* one that fails otherwise than by its timeout fails with 'unknown method',
\* and no response has the Worker destroyed.
C32_TerminateFailsWithoutCallback ==
  ~setup.onterminate
    => /\ (/\ turn.kind = "message"
           /\ WellFormed(turn.data)
           /\ turn.data.target = Undefined
           /\ turn.data.method = Str("onterminate"))
            => /\ turn.invoked = <<>>
               /\ OneReject(turn.posts, turn.data.uuid, "Error", "unknown method")
       /\ \A c \in DOMAIN promises :
            IsTerminate(c)
              => /\ promises[c].state # "fulfilled"
                 /\ (promises[c].state = "rejected" /\ ~TimedOut(c))
                      => /\ NameOf(promises[c].val) = "Error"
                         /\ MessageOf(promises[c].val) = "unknown method"
       /\ ~(seen.kind = "message" /\ seen.killed)

\* C32, the failing case: no termination callback is bound, and yet a call
\* placed by terminate() has fulfilled and the Worker was destroyed for it
C32_TerminatedWithoutCallback ==
  /\ ~setup.onterminate
  /\ seen.kind = "message"
  /\ seen.killed
  /\ ~alive
  /\ seen.settled \in DOMAIN promises
  /\ IsTerminate(seen.settled)
  /\ promises[seen.settled].state = "fulfilled"

\* call c awaits its response: it has neither timed out nor been settled, and
\* no message carrying its uuid has been received since it was placed
Awaiting(c) == promises[c].state = "pending" /\ ~promises[c].heard

\* C33: at every moment the Identifier Allocator holds a record under uuid u
\* exactly when some call placed under u has not timed out and has not yet
\* had a response carrying u received.
C33_RecordIffAwaited ==
  \A u \in Keys :
    u \in DOMAIN calls <=> \E c \in DOMAIN promises : promises[c].uuid = u /\ Awaiting(c)

\* C33, the failing case: a call that has not timed out, and for which no
\* response has been received, has no record under its uuid
C33_AwaitedWithoutRecord ==
  \E c \in DOMAIN promises : Awaiting(c) /\ promises[c].uuid \notin DOMAIN calls

\* C34: the target method of a request is invoked in the turn that handles
\* the request message, and the messages are handled in the order of their
\* arrival: when the request of a call is handled, it is the oldest one
\* queued and the request of every earlier call has had its method invoked;
\* the turn in which a pending outcome settles only posts the response and
\* invokes nothing.
C34_InvokedInArrivalOrder ==
  [][/\ (alive' /\ Len(toWorker') < Len(toWorker))
          => /\ turn'.kind = "message"
             /\ turn'.data = Head(toWorker)
             /\ toWorker' = Tail(toWorker)
             /\ \A i \in DOMAIN turn'.invoked :
                  /\ turn'.invoked[i].fn \in {Fun("service", turn'.data.method.s),
                                              TerminationCallback}
                  /\ turn'.applied = turn'.invoked[i].fn
             /\ served'[turn'.data.of] # NoOutcome
             /\ \A c \in 1..(turn'.data.of - 1) : served[c] # NoOutcome
     /\ (turn' # turn /\ turn'.kind = "settle")
          => /\ turn'.invoked = <<>>
             /\ toWorker' = toWorker]_vars

\* C34 witness: the method of a later request was invoked and its response
\* posted while the outcome of a method invoked for an earlier request is
\* still pending
C34_ResponsesOutOfOrder ==
  /\ turn.kind = "message"
  /\ turn.invoked # <<>>
  /\ Len(turn.posts) = 1
  /\ turn.posts[1].uuid = turn.data.uuid
  /\ \E j \in DOMAIN jobs :
       /\ jobs[j].of < turn.data.of
       /\ jobs[j].of > 1
       /\ isFunction(jobs[j].fn)
====
